---- MODULE Spec2Model ----
(***************************************************************************)
(* Keystore and mnemonic management of the devkit CLI:                     *)
(*   EncryptionService  (encryption_service.ts)                            *)
(*   KeystoreManager    (keystore_manager.ts)                              *)
(*   MnemonicManager    (mnemonic_manager.ts)                              *)
(*   Wallet             (wallet.ts)                                        *)
(*                                                                         *)
(* Strings that the code takes apart (mnemonics, passwords, base64 text)   *)
(* are sequences of numbers: code points for mnemonics and passwords,      *)
(* indexes into the base64 alphabet for encrypted blobs.  Labels and       *)
(* error messages are TLA+ strings.  An optional value (number | null,     *)
(* string | undefined) is a sequence of length 0 or 1.                     *)
(***************************************************************************)
EXTENDS Integers, Sequences, FiniteSets, TLC

\* ------------------------------------------------------------------------
\* Bounds of the model
\* ------------------------------------------------------------------------

\* largest number of keystore entries addMnemonic is allowed to reach
MaxEntries == 3

\* ------------------------------------------------------------------------
\* Optional values
\* ------------------------------------------------------------------------

None == <<>>

Some(v) == <<v>>

\* ------------------------------------------------------------------------
\* Bytes, text encoding, base64
\* ------------------------------------------------------------------------

RECURSIVE Sum(_)
Sum(s) == IF s = <<>> THEN 0 ELSE Head(s) + Sum(Tail(s))

\* Uint8Array.prototype.slice(from, to) with 0-based half-open bounds,
\* clamped to the length of the array
Slice(b, from, to) ==
    LET hi == IF to < Len(b) THEN to ELSE Len(b)
    IN  IF from >= hi THEN <<>> ELSE SubSeq(b, from + 1, hi)

\* new TextEncoder().encode(string): UTF-8, for code points below U+0800
RECURSIVE TextEncode(_)
TextEncode(s) ==
    IF s = <<>> THEN <<>>
    ELSE LET c == Head(s)
         IN  (IF c < 128 THEN <<c>>
              ELSE <<192 + (c \div 64), 128 + (c % 64)>>) \o TextEncode(Tail(s))

\* U+FFFD, what a non-fatal TextDecoder writes for a malformed sequence
ReplacementChar == 65533

\* new TextDecoder().decode(bytes): UTF-8, one- and two-byte sequences
RECURSIVE TextDecode(_)
TextDecode(b) ==
    IF b = <<>> THEN <<>>
    ELSE LET b1 == Head(b)
         IN  IF b1 < 128 THEN <<b1>> \o TextDecode(Tail(b))
             ELSE IF /\ b1 >= 194 /\ b1 < 224 /\ Len(b) >= 2
                     /\ b[2] >= 128 /\ b[2] < 192
                  THEN <<(b1 - 192) * 64 + (b[2] - 128)>> \o TextDecode(Tail(Tail(b)))
                  ELSE <<ReplacementChar>> \o TextDecode(Tail(b))

\* index of '=' in the model's base64 text; 0..63 are the alphabet
B64Pad == 64

\* btoa(String.fromCharCode(...bytes))
RECURSIVE btoa(_)
btoa(b) ==
    IF Len(b) = 0 THEN <<>>
    ELSE IF Len(b) = 1
         THEN <<b[1] \div 4, (b[1] % 4) * 16, B64Pad, B64Pad>>
    ELSE IF Len(b) = 2
         THEN <<b[1] \div 4, (b[1] % 4) * 16 + (b[2] \div 16), (b[2] % 16) * 4, B64Pad>>
    ELSE <<b[1] \div 4, (b[1] % 4) * 16 + (b[2] \div 16),
           (b[2] % 16) * 4 + (b[3] \div 64), b[3] % 64>>
         \o btoa(SubSeq(b, 4, Len(b)))

RECURSIVE B64Decode(_)
B64Decode(t) ==
    IF Len(t) < 2 THEN <<>>
    ELSE IF Len(t) = 2
         THEN <<t[1] * 4 + (t[2] \div 16)>>
    ELSE IF Len(t) = 3
         THEN <<t[1] * 4 + (t[2] \div 16), (t[2] % 16) * 16 + (t[3] \div 4)>>
    ELSE <<t[1] * 4 + (t[2] \div 16), (t[2] % 16) * 16 + (t[3] \div 4),
           (t[3] % 4) * 64 + t[4]>>
         \o B64Decode(SubSeq(t, 5, Len(t)))

\* Uint8Array.from(atob(text), c => c.charCodeAt(0)): the forgiving base64
\* decode; ok = FALSE stands for the InvalidCharacterError atob throws
atob(s) ==
    LET n == Len(s)
        t == IF n > 0 /\ n % 4 = 0 /\ s[n] = B64Pad
             THEN IF s[n - 1] = B64Pad THEN SubSeq(s, 1, n - 2)
                                       ELSE SubSeq(s, 1, n - 1)
             ELSE s
    IN  IF Len(t) % 4 = 1 \/ \E i \in 1..Len(t) : t[i] >= B64Pad
        THEN [ok |-> FALSE, bytes |-> <<>>]
        ELSE [ok |-> TRUE, bytes |-> B64Decode(t)]

\* ------------------------------------------------------------------------
\* EncryptionService
\* ------------------------------------------------------------------------

\* new Uint8Array(16) for the salt, new Uint8Array(12) for the nonce
SaltLength == 16

IvLength == 12

\* AES-GCM appends a 128-bit authentication tag to the ciphertext
TagLength == 16

\* for (let attempt = 1; attempt <= 3; attempt++)
MaxAttempts == 3

\* getRandomValues(new Uint8Array(n)): the n bytes the generator writes; the
\* model draws them as n copies of one byte of RandomFills
RandomFills == {0, 9}

getRandomValues(n, fill) == [i \in 1..n |-> fill]

\* passwords typed at the Secret prompt ("p", "q")
Passwords == {<<112>>, <<113>>}

\* deriveKeyFromPassword once the prompt has returned `password`: PBKDF2 is
\* a function of the encoded password and the salt; the key is that pair
deriveKeyFromPassword(password, salt) ==
    [password |-> TextEncode(password), salt |-> salt]

\* Stand-in for the AES-GCM primitive of crypto.subtle.  The key stream and
\* the tag depend on key and nonce; within the model's passwords two
\* different keys over the same salt, nonce and ciphertext never share a tag.
KeyStream(key, iv) == (Sum(key.password) + Sum(key.salt) + Sum(iv)) % 256

AuthTag(key, iv, ct) ==
    [j \in 1..TagLength |-> (KeyStream(key, iv) + Sum(ct) + j) % 256]

\* crypto.subtle.encrypt({ name: 'AES-GCM', iv }, key, plaintext)
AesGcmEncrypt(key, iv, pt) ==
    LET ct == [i \in 1..Len(pt) |-> (pt[i] + KeyStream(key, iv)) % 256]
    IN  ct \o AuthTag(key, iv, ct)

\* crypto.subtle.decrypt({ name: 'AES-GCM', iv }, key, data): ok = FALSE is
\* the OperationError of a failed authentication
AesGcmDecrypt(key, iv, data) ==
    IF Len(data) < TagLength THEN [ok |-> FALSE, bytes |-> <<>>]
    ELSE LET ct  == SubSeq(data, 1, Len(data) - TagLength)
             tag == SubSeq(data, Len(data) - TagLength + 1, Len(data))
         IN  IF tag = AuthTag(key, iv, ct)
             THEN [ok |-> TRUE,
                   bytes |-> [i \in 1..Len(ct) |->
                                 (ct[i] + 256 - KeyStream(key, iv)) % 256]]
             ELSE [ok |-> FALSE, bytes |-> <<>>]

\* encryptMnemonic(mnemonic) with `password` typed at the prompt and the two
\* random arrays filled with ivFill and saltFill
encryptMnemonic(mnemonic, password, ivFill, saltFill) ==
    LET iv        == getRandomValues(IvLength, ivFill)
        salt      == getRandomValues(SaltLength, saltFill)
        key       == deriveKeyFromPassword(password, salt)
        encrypted == AesGcmEncrypt(key, iv, TextEncode(mnemonic))
    IN  [error |-> "", blob |-> btoa(salt \o iv \o encrypted)]

\* DecryptStart with the nonce cut one byte short
DecryptStartShortIv(encryptedMnemonic) ==
    LET decoded == atob(encryptedMnemonic)
    IN  [ok   |-> decoded.ok,
         salt |-> Slice(decoded.bytes, 0, SaltLength),
         iv   |-> Slice(decoded.bytes, SaltLength, SaltLength + IvLength - 1),
         data |-> Slice(decoded.bytes, SaltLength + IvLength, Len(decoded.bytes))]

\* decryptMnemonic before its loop: decode and slice the blob
DecryptStart(encryptedMnemonic) ==
    LET decoded == atob(encryptedMnemonic)
    IN  [ok   |-> decoded.ok,
         salt |-> Slice(decoded.bytes, 0, SaltLength),
         iv   |-> Slice(decoded.bytes, SaltLength, SaltLength + IvLength),
         data |-> Slice(decoded.bytes, SaltLength + IvLength, Len(decoded.bytes))]

\* one pass through the body of the loop: `entered` is None when the prompt
\* itself fails, Some(password) otherwise; both failures land in the catch
DecryptAttempt(salt, iv, data, entered) ==
    IF entered = None THEN [ok |-> FALSE, value |-> <<>>]
    ELSE LET key       == deriveKeyFromPassword(entered[1], salt)
             decrypted == AesGcmDecrypt(key, iv, data)
         IN  IF decrypted.ok
             THEN [ok |-> TRUE, value |-> TextDecode(decrypted.bytes)]
             ELSE [ok |-> FALSE, value |-> <<>>]

\* LoopContinues with the bound off by one
LoopContinuesOneMore(attempt) == attempt <= MaxAttempts

\* the loop condition after a failed attempt
LoopContinues(attempt) == attempt + 1 <= MaxAttempts

ErrMaxAttempts == "Maximum decryption attempts reached."

\* the DOMException of atob, 'Failed to decode base64'
ErrInvalidCharacter == "InvalidCharacterError"

\* strings handed to decryptMnemonic that are not the output of
\* encryptMnemonic: '!' in the text, a length of 4n + 1, and well-formed
\* base64 of 3 and of 27 bytes
MalformedBlobs ==
    { <<0, 0, 0, 65>>,
      <<0, 0, 0, 0, 0>>,
      <<0, 0, 0, 0>>,
      btoa([i \in 1..(SaltLength + IvLength - 1) |-> 0]) }

\* ------------------------------------------------------------------------
\* KeystoreManager
\* ------------------------------------------------------------------------

\* KeystoreEntry
Entry(type, label, mnemonic) ==
    [type |-> type, label |-> label, mnemonic |-> mnemonic]

\* 'test test test test test test test test test test test junk'
TestWord == <<116, 101, 115, 116>>

JunkWord == <<106, 117, 110, 107>>

RECURSIVE Phrase(_, _)
Phrase(n, lastWord) ==
    IF n = 0 THEN lastWord ELSE TestWord \o <<32>> \o Phrase(n - 1, lastWord)

DefaultMnemonic == Phrase(11, JunkWord)

DefaultEntry == Entry("plaintext", "Default Keystore", DefaultMnemonic)

\* a getter that falls back to the second entry: this.activeIndex || 1
getActiveIndexFallsBackToOne(ai) == IF ai = None \/ ai[1] = 0 THEN 1 ELSE ai[1]

\* getActiveIndex(): this.activeIndex || 0
getActiveIndex(ai) == IF ai = None \/ ai[1] = 0 THEN 0 ELSE ai[1]

\* values of the active index a keystore file may hold: null, negative,
\* inside and beyond the entries
ActiveIndexValues == {None} \cup {Some(i) : i \in (-1)..(MaxEntries + 1)}

\* the KeystoreFile writeKeystore() serialises and readKeystore() parses
\* back: JSON keeps the entries and a numeric index, and reads a null or
\* missing index back as no index
KeystoreFile(ks, ai) == [keystore |-> ks, activeIndex |-> ai]

\* keystore[i] of the code, i counted from 0
At(ks, i) == ks[i + 1]

\* ------------------------------------------------------------------------
\* MnemonicManager
\* ------------------------------------------------------------------------

ErrInvalidIndex == "Invalid mnemonic index"

ErrCannotDeleteDefault ==
    "Cannot delete the default mnemonic as it serves as a fallback"

\* Splice removing the entry before `index`
SpliceOffByOne(ks, index) == SubSeq(ks, 1, index - 1) \o SubSeq(ks, index + 1, Len(ks))

\* keystore.splice(index, 1)
Splice(ks, index) == SubSeq(ks, 1, index) \o SubSeq(ks, index + 2, Len(ks))

\* Renormalize without the decrement of a later active index
RenormalizeNoDecrement(ai, index) ==
    IF getActiveIndex(ai) = index THEN Some(0) ELSE ai

\* Renormalize without the reset of a deleted active index
RenormalizeNoReset(ai, index) ==
    LET a == getActiveIndex(ai)
    IN  IF a > index THEN Some(a - 1) ELSE ai

\* the active index deleteMnemonic leaves behind after removing `index`
Renormalize(ai, index) ==
    LET a == getActiveIndex(ai)
    IN  IF a = index THEN Some(0)
        ELSE IF a > index THEN Some(a - 1)
        ELSE ai

\* deleteMnemonic returning before writeKeystore()
deleteMnemonicNoWrite(ks, ai, index) ==
    IF index < 0 \/ index >= Len(ks)
    THEN [error |-> ErrInvalidIndex, keystore |-> ks, activeIndex |-> ai,
          written |-> FALSE]
    ELSE IF index = 0
    THEN [error |-> ErrCannotDeleteDefault, keystore |-> ks, activeIndex |-> ai,
          written |-> FALSE]
    ELSE [error |-> "", keystore |-> SubSeq(ks, 1, index) \o SubSeq(ks, index + 2, Len(ks)),
          activeIndex |-> IF getActiveIndex(ai) = index THEN Some(0)
                          ELSE IF getActiveIndex(ai) > index
                               THEN Some(getActiveIndex(ai) - 1) ELSE ai,
          written |-> FALSE]

\* deleteMnemonic without the guard of the default entry
deleteMnemonicNoDefaultGuard(ks, ai, index) ==
    IF index < 0 \/ index >= Len(ks)
    THEN [error |-> ErrInvalidIndex, keystore |-> ks, activeIndex |-> ai,
          written |-> FALSE]
    ELSE [error |-> "", keystore |-> SubSeq(ks, 1, index) \o SubSeq(ks, index + 2, Len(ks)),
          activeIndex |-> ai, written |-> TRUE]

\* deleteMnemonic with the upper bound off by one
deleteMnemonicOffByOne(ks, ai, index) ==
    IF index < 0 \/ index > Len(ks)
    THEN [error |-> ErrInvalidIndex, keystore |-> ks, activeIndex |-> ai,
          written |-> FALSE]
    ELSE IF index = 0
    THEN [error |-> ErrCannotDeleteDefault, keystore |-> ks, activeIndex |-> ai,
          written |-> FALSE]
    ELSE [error |-> "", keystore |-> SubSeq(ks, 1, index) \o SubSeq(ks, index + 2, Len(ks)),
          activeIndex |-> ai, written |-> TRUE]

\* MnemonicManager.deleteMnemonic(index) on the keystore ks with active
\* index ai: the error thrown ("" for none), the fields it leaves and whether
\* writeKeystore() was reached
deleteMnemonic(ks, ai, index) ==
    IF index < 0 \/ index >= Len(ks)
    THEN [error |-> ErrInvalidIndex, keystore |-> ks, activeIndex |-> ai,
          written |-> FALSE]
    ELSE IF index = 0
    THEN [error |-> ErrCannotDeleteDefault, keystore |-> ks, activeIndex |-> ai,
          written |-> FALSE]
    ELSE [error |-> "", keystore |-> Splice(ks, index),
          activeIndex |-> Renormalize(ai, index), written |-> TRUE]

\* a default label that counts the entries there are: `Mnemonic ${length}`
DefaultLabelOffByOne(ks) == "Mnemonic " \o ToString(Len(ks))

\* `Mnemonic ${keystore.length + 1}`
DefaultLabel(ks) == "Mnemonic " \o ToString(Len(ks) + 1)

\* phrases promptForMnemonic() returns, cut short to "a" and "b é"; the
\* twelve words of an import are spelled out by the import actions
Mnemonics == {<<97>>, <<98, 32, 233>>}

\* `for (let i = 1; i <= 12; i++)`
WordCount == 12

\* the wordlist `english`, as far as the answers below can tell
english == {TestWord, JunkWord}

\* answers to a word prompt: 'test', 'junk', 'invalidword', ' test' and ''
InvalidWord == <<105, 110, 118, 97, 108, 105, 100, 119, 111, 114, 100>>

WordInputs == {TestWord, JunkWord, InvalidWord, <<32>> \o TestWord, <<>>}

\* a validate option that lets every answer through
validateAcceptsAll(input) == TRUE

\* validate: (input) => english.includes(input) || 'Invalid word. ...'
validate(input) == input \in english

\* words.join(' ')
RECURSIVE Join(_)
Join(ws) ==
    IF ws = <<>> THEN <<>>
    ELSE IF Len(ws) = 1 THEN ws[1]
    ELSE ws[1] \o <<32>> \o Join(Tail(ws))

\* what the operator answers and what the generator draws during one
\* addMnemonic(): storage option, phrase, label, encryption password and the
\* fills of the nonce and the salt (unused when the entry is stored plain)
AddInput(storageChoice, phrase, label, password, ivFill, saltFill) ==
    [storageChoice |-> storageChoice, phrase |-> phrase, label |-> label,
     password |-> password, ivFill |-> ivFill, saltFill |-> saltFill]

\* the phrase "a" stored plain under the default label, and the phrase
\* "b é" stored encrypted with the password "p" under the label 'Savings'
AddInputs ==
    { AddInput("p", <<97>>, None, <<112>>, 0, 0),
      AddInput("e", <<98, 32, 233>>, Some("Savings"), <<112>>, 0, 9) }

\* MnemonicManager.addMnemonic(): the entry pushed and the index returned
addMnemonic(ks, storageChoice, phrase, label, password, ivFill, saltFill) ==
    LET lbl      == IF label = None THEN DefaultLabel(ks) ELSE label[1]
        newIndex == Len(ks)
        entry    == IF storageChoice = "p"
                    THEN Entry("plaintext", lbl, phrase)
                    ELSE Entry("encoded", lbl,
                               encryptMnemonic(phrase, password, ivFill, saltFill).blob)
    IN  [keystore |-> Append(ks, entry), newIndex |-> newIndex]

\* ------------------------------------------------------------------------
\* Wallet
\* ------------------------------------------------------------------------

\* derivations the model starts together (initializeChain starts 10)
MaxDerivations == 2

ErrNoActive == "No active mnemonic selected."

ErrNoAdditional == "No additional mnemonics to delete"

ErrTypeError == "TypeError"

\* initializeKeystore loading the entries of the file but not its index
initializeKeystoreKeepsIndex(existing, ks, ai) ==
    IF existing = None
    THEN [keystore |-> Append(ks, DefaultEntry), activeIndex |-> Some(0),
          written |-> TRUE]
    ELSE [keystore |-> existing[1].keystore, activeIndex |-> ai,
          written |-> FALSE]

\* initializeKeystore() up to its getActiveMnemonic(): `existing` is what
\* readKeystore() returned (None for null), ks and ai the fields before
initializeKeystore(existing, ks, ai) ==
    IF existing = None
    THEN [keystore |-> Append(ks, DefaultEntry), activeIndex |-> Some(0),
          written |-> TRUE]
    ELSE [keystore |-> existing[1].keystore,
          activeIndex |-> existing[1].activeIndex, written |-> FALSE]

\* !this.mnemonic
CacheUnset(cache) == cache = None \/ cache = Some(<<>>)

\* getActiveMnemonic() up to its first await: throw, return a value, or go
\* on to decryptMnemonic(blob)
getActiveMnemonic(ks, ai, cache) ==
    LET a == getActiveIndex(ai)
    IN  IF a < 0
        THEN [kind |-> "throw", error |-> ErrNoActive, value |-> <<>>]
        ELSE IF CacheUnset(cache)
        THEN IF a >= Len(ks)
             THEN [kind |-> "throw", error |-> ErrTypeError, value |-> <<>>]
             ELSE IF At(ks, a).type = "encoded"
                  THEN [kind |-> "decrypt", error |-> "", value |-> At(ks, a).mnemonic]
                  ELSE [kind |-> "return", error |-> "", value |-> At(ks, a).mnemonic]
        ELSE [kind |-> "return", error |-> "", value |-> cache[1]]

\* Number(selectedIndex.value) !== currentIndex: the prompt returns a string,
\* its .value is undefined, Number(undefined) is NaN and NaN !== n holds
SelectionChanged(selectedIndex, currentIndex) == TRUE

\* the test after mnemonicManager.deleteMnemonic(index) has returned:
\* Number(selectedIndex) === this.keystoreManager.getActiveIndex()
DeletedWasActive(selectedIndex, aiAfter) == selectedIndex = getActiveIndex(aiAfter)

\* getActiveMnemonicLabel(): the error it throws, "" when it returns a label
getActiveMnemonicLabel(ks, ai) ==
    LET a == getActiveIndex(ai)
    IN  IF a < 0 THEN ErrNoActive
        ELSE IF a >= Len(ks) THEN ErrTypeError
        ELSE ""

\* ------------------------------------------------------------------------
\* coreClient: the funding account (cive.ts)
\* ------------------------------------------------------------------------

\* destination strings: a base32 address of the Core space, a hex address of
\* the eSpace, and a string that is neither
CoreAddress == "net2029:aamjy3abae3j0ud8ys0npt38ggnunk5r4ps2pg8vcc"

EspaceAddress == "0x70997970C51812dc3A010C7d01b50e0d17dc79C8"

NoAddress == "xyz"

Addresses == {CoreAddress, EspaceAddress, NoAddress}

\* isAddress of cive/utils
isCoreAddress(address) == address = CoreAddress

\* isAddress of viem
isEspaceAddress(address) == address = EspaceAddress

\* an amount string with what the library functions make of it: numeric when
\* Number(text) is not NaN, decimal when parseCFX(text) returns a value (it
\* throws on anything but -?digits.digits), positive when Number(text) > 0
Amount(text, numeric, decimal, positive) ==
    [text |-> text, numeric |-> numeric, decimal |-> decimal,
     positive |-> positive]

Amounts ==
    { Amount("100", TRUE, TRUE, TRUE),
      Amount("0", TRUE, TRUE, FALSE),
      Amount("-5", TRUE, TRUE, FALSE),
      Amount("Infinity", TRUE, FALSE, TRUE),
      Amount("abc", FALSE, FALSE, FALSE),
      Amount("", TRUE, FALSE, FALSE) }

\* !amount || isNaN(Number(amount))
InvalidAmount(amount) == amount.text = "" \/ ~amount.numeric

ErrInvalidAmount == "Invalid amount: Must be a valid number"

ErrInvalidAddress == "Invalid address"

ErrTransactionFailed == "Transaction failed"

ErrFaucetFailed == "Faucet transaction failed"

ErrInvalidAddressFormat == "Faucet transaction failed: Invalid address format"

\* the CrossSpaceCall system contract
CrossSpaceCall == "0x0888000000000000000000000000000000000006"

\* the argument of one call of this.wallet.sendTransaction
Tx(to, value, data, arg) == [to |-> to, value |-> value, data |-> data, arg |-> arg]

\* what a method of the client has done when it first waits for the node:
\* the error it has thrown ("" for none), the calls of
\* wallet.sendTransaction it has made, and the error it throws if the node
\* rejects the call
Sending(error, calls, onReject) ==
    [error |-> error, calls |-> calls, onReject |-> onReject]

\* coreClient.sendTransaction(address, amount)
sendTransaction(address, amount) ==
    IF ~isCoreAddress(address) THEN Sending(ErrInvalidAddress, <<>>, "")
    ELSE IF InvalidAmount(amount) THEN Sending(ErrInvalidAmount, <<>>, "")
    ELSE IF ~amount.decimal THEN Sending(ErrTransactionFailed, <<>>, "")
    ELSE Sending("", <<Tx(address, amount.text, "", "")>>, ErrTransactionFailed)

\* faucet sending to every destination by a native transfer
faucetAlwaysNative(address, amount) ==
    IF InvalidAmount(amount) THEN Sending(ErrInvalidAmount, <<>>, "")
    ELSE IF ~amount.decimal THEN Sending(ErrFaucetFailed, <<>>, "")
    ELSE IF isEspaceAddress(address) \/ isCoreAddress(address)
    THEN Sending("", <<Tx(address, amount.text, "", "")>>, ErrTransactionFailed)
    ELSE Sending(ErrInvalidAddressFormat, <<>>, "")

\* coreClient.faucet(address, amount)
faucet(address, amount) ==
    IF InvalidAmount(amount) THEN Sending(ErrInvalidAmount, <<>>, "")
    ELSE IF isEspaceAddress(address)
    THEN IF ~amount.decimal THEN Sending(ErrFaucetFailed, <<>>, "")
         ELSE Sending("", <<Tx(CrossSpaceCall, amount.text, "transferEVM", address)>>,
                      ErrFaucetFailed)
    ELSE IF isCoreAddress(address) THEN sendTransaction(address, amount)
    ELSE Sending(ErrInvalidAddressFormat, <<>>, "")

\* ------------------------------------------------------------------------
\* The two feeds: coreClient.watchTx (cive.ts), espaceClient.watchTx (viem.ts)
\* ------------------------------------------------------------------------

\* what the node answers about one block: whether getBlock() resolves, and
\* for each transaction of the block "ok", "noTx" (getTransaction rejects) or
\* "badValue" (the monitor's handler throws in BigInt(tx.value))
Block(fetched, txs) == [fetched |-> fetched, txs |-> txs]

\* one event of a feed: the blocks of the epoch, None when getBlocksByEpoch
\* rejects; an event of the eSpace feed is one block
FeedEvent(blocks) == [blocks |-> blocks]

CoreEvents ==
    { FeedEvent(None),
      FeedEvent(Some(<<Block(TRUE, <<"ok">>)>>)),
      FeedEvent(Some(<<Block(FALSE, <<>>), Block(TRUE, <<"noTx", "ok">>)>>)),
      FeedEvent(Some(<<Block(TRUE, <<"badValue", "ok">>), Block(TRUE, <<>>)>>)) }

EspaceEvents ==
    { FeedEvent(Some(<<Block(TRUE, <<"ok">>)>>)),
      FeedEvent(Some(<<Block(FALSE, <<"ok">>)>>)),
      FeedEvent(Some(<<Block(TRUE, <<"noTx", "badValue", "ok">>)>>)) }

\* an item a feed logs an error for: the epoch, a block, or a transaction
Item(kind, block, tx) == [kind |-> kind, block |-> block, tx |-> tx]

\* what a callback of a feed has done when it ends: the blocks given to
\* onNewBlock, the transactions onNewTransaction has returned from, the items
\* with an error logged, and whether the callback itself rejects
Handled(blocks, txs, errors, thrown) ==
    [blocks |-> blocks, txs |-> txs, errors |-> errors, thrown |-> thrown]

\* for (const hash of blockHashes) { try { ... } catch { ... } }, and the
\* body of onBlock: each block and each transaction in a try of its own
ProcessBlocks(bs) ==
    LET fetched == {i \in 1..Len(bs) : bs[i].fetched}
        Txs(i, outcomes) ==
            {Item("tx", i, j) : j \in {j \in 1..Len(bs[i].txs) : bs[i].txs[j] \in outcomes}}
    IN  Handled(fetched,
                UNION {Txs(i, {"ok"}) : i \in fetched},
                {Item("block", i, 0) : i \in (1..Len(bs)) \ fetched}
                    \cup UNION {Txs(i, {"noTx", "badValue"}) : i \in fetched},
                FALSE)

\* onEpochNumber without the try around getBlocksByEpoch
onEpochNumberNoCatch(event) ==
    IF event.blocks = None THEN Handled({}, {}, {}, TRUE)
    ELSE ProcessBlocks(event.blocks[1])

\* the onEpochNumber callback of coreClient.watchTx
onEpochNumber(event) ==
    IF event.blocks = None THEN Handled({}, {}, {Item("epoch", 0, 0)}, FALSE)
    ELSE ProcessBlocks(event.blocks[1])

\* the onBlock callback of espaceClient.watchTx
onBlock(event) == ProcessBlocks(event.blocks[1])

\* ------------------------------------------------------------------------
\* TransactionMonitor (node.ts)
\* ------------------------------------------------------------------------

\* largest number of times watchTransactions() is called in one run
MaxWatches == 3

\* one subscription: "active" or "unwatched" ("dead" if its callback has
\* rejected), and whether it has logged an error yet
Sub(status, failed) == [status |-> status, failed |-> failed]

\* the pair of subscriptions one watchTransactions() opens
Pair(core, espace) == [core |-> core, espace |-> espace]

\* cUnwatch(), vUnwatch(): the unsubscribe functions of the clients
Unsubscribe(sub) == [sub EXCEPT !.status = "unwatched"]

ErrNotAFunction == "TypeError: unwatch is not a function"

\* unwatch() called without the optional chaining
UnwatchNotOptional(ss, uw, sp) ==
    IF uw = None
    THEN [subs |-> ss, spinning |-> sp, error |-> ErrNotAFunction]
    ELSE [subs |-> [ss EXCEPT ![uw[1]] = Pair(Unsubscribe(@.core), Unsubscribe(@.espace))],
          spinning |-> FALSE, error |-> ""]

\* this.txScan.unwatch?.() on the subscriptions ss, with unwatch = uw and the
\* status line running or not: what it leaves, and the error it throws
Unwatch(ss, uw, sp) ==
    IF uw = None
    THEN [subs |-> ss, spinning |-> sp, error |-> ""]
    ELSE [subs |-> [ss EXCEPT ![uw[1]] = Pair(Unsubscribe(@.core), Unsubscribe(@.espace))],
          spinning |-> FALSE, error |-> ""]

ErrNotInitialized == "Clients are not initialized"

\* watchTransactions(): the subscriptions and the unwatch it leaves
watchTransactions(ss, uw, cl) ==
    IF ~cl THEN [subs |-> ss, unwatch |-> uw, error |-> ErrNotInitialized]
    ELSE [subs |-> Append(ss, Pair(Sub("active", FALSE), Sub("active", FALSE))),
          unwatch |-> Some(Len(ss) + 1), error |-> ""]

\* ------------------------------------------------------------------------
\* State
\* ------------------------------------------------------------------------

VARIABLES
    file,         \* the keystore file: None while empty, else Some(KeystoreFile)
    keystore,     \* KeystoreManager.keystore
    activeIndex,  \* KeystoreManager.activeIndex: None for null, else Some(n)
    mnemonic,     \* Wallet.mnemonic, the cache: None for undefined
    phase,        \* "constructed", "ready" (initializeKeystore returned) or
                  \* "failed" (initializeKeystore threw, the command ends)
    call,         \* the call that is waiting for decryptMnemonic
    dec,          \* decryptMnemonic: position in the loop and passwords entered
    last          \* the last call that returned or threw, with its outcome

\* the `start` command: the node, the two feeds and the key-reading loop
VARIABLES
    pc,           \* where the start action, waitForExit or a sub-dialog stands
    keys,         \* the keys of the chunk read from stdin still to be handled
    exit,         \* the flag `exit` of waitForExit (true while the loop goes on)
    clients,      \* TransactionMonitor.coreClient and espaceClient are set
    minerWallet,  \* ServerManager.minerWallet is set
    subs,         \* every pair of subscriptions watchTransactions() has opened
    unwatch,      \* TransactionMonitor.unwatch: None, or Some(pair it closes)
    spinning,     \* the status line (CliSpinner) is running
    dialog,       \* the sub-dialog that is open or was the last to end
    sent,         \* the calls of wallet.sendTransaction made by that dialog
    feed,         \* the last event a feed delivered and what came of it
    teardown      \* the calls of unwatch since the last watchTransactions()

\* MnemonicManager.importMnemonic(), the loop that asks for the twelve words
VARIABLES
    ipc,          \* "idle", "word" (at a word prompt), "label" or "stored"
    words,        \* the array `words` of importMnemonic
    typed         \* the last answer to a word prompt and the array before it

\* key derivations started together (Promise.all over derivePrivateKey)
VARIABLES
    derivations   \* one record for each derivePrivateKey() that is in flight

\* the asynchronous callbacks onEpochNumber and onBlock, one step at a time
VARIABLES
    handlers,     \* one record for each block a feed has delivered, in the
                  \* order of arrival: its space and how far its callback is
    latest,       \* TransactionMonitor.coreBlock.number and espaceBlock.number
    terminal      \* what the block and transaction callbacks have written

walletVars == <<file, keystore, activeIndex, mnemonic, phase, call, dec, last>>

handlerVars == <<handlers, latest, terminal>>

importVars == <<ipc, words, typed>>

monitorVars ==
    <<pc, keys, exit, clients, minerWallet, subs, unwatch, spinning, dialog,
      sent, feed, teardown>>

vars == <<walletVars, monitorVars, importVars, derivations, handlerVars>>

\* what the Wallet operations, the start command and the import leave alone
notWallet == <<monitorVars, importVars, derivations, handlerVars>>

notMonitor == <<walletVars, importVars, derivations, handlerVars>>

notImport ==
    <<monitorVars, mnemonic, phase, call, dec, activeIndex, derivations, handlerVars>>

notDerivation ==
    <<monitorVars, importVars, handlerVars, file, keystore, activeIndex, mnemonic,
      phase, dec>>

notHandler ==
    <<walletVars, importVars, derivations, pc, keys, exit, clients, minerWallet,
      subs, unwatch, dialog, sent, feed, teardown>>

\* the fields a call can change, as they are when it starts
Snapshot ==
    [keystore |-> keystore, activeIndex |-> activeIndex,
     file |-> file, mnemonic |-> mnemonic]

NoSnapshot ==
    [keystore |-> <<>>, activeIndex |-> None, file |-> None, mnemonic |-> None]

\* a call: operation, numeric argument or choice, yes/no choice, and for the
\* EncryptionService calls the phrase and password of the encryption
Call(op, arg, opt, m, pw) ==
    [op |-> op, arg |-> arg, opt |-> opt, m |-> m, pw |-> pw, pre |-> Snapshot]

NoCall ==
    [op |-> "", arg |-> 0, opt |-> "", m |-> None, pw |-> None, pre |-> NoSnapshot]

Result(c, error, ret) ==
    [op |-> c.op, arg |-> c.arg, opt |-> c.opt, m |-> c.m, pw |-> c.pw,
     pre |-> c.pre, error |-> error, ret |-> ret]

DecIdle ==
    [pc |-> "idle", blob |-> <<>>, salt |-> <<>>, iv |-> <<>>, data |-> <<>>,
     attempt |-> 0, entered |-> <<>>]

Idle == call.op = ""

\* a sub-dialog: "faucet" or "balance"; "open", "done" or "failed"; the
\* answers to its prompts so far and the error it has printed
Dialog(kind, state, address, amount, error) ==
    [kind |-> kind, state |-> state, address |-> address, amount |-> amount,
     error |-> error]

NoDialog == Dialog("", "", None, None, "")

NoFeed == [space |-> "", event |-> FeedEvent(None), handled |-> Handled({}, {}, {}, FALSE)]

\* new TransactionMonitor(), no ServerManager yet
MonitorInit ==
    /\ pc = "init"
    /\ keys = <<>>
    /\ exit = TRUE
    /\ clients = FALSE
    /\ minerWallet = FALSE
    /\ subs = <<>>
    /\ unwatch = None
    /\ spinning = FALSE
    /\ dialog = NoDialog
    /\ sent = <<>>
    /\ feed = NoFeed
    /\ teardown = [calls |-> 0, error |-> ""]

\* no import has begun
NoTyped == [pos |-> 0, input |-> <<>>, before |-> <<>>, retried |-> FALSE]

ImportInit ==
    /\ derivations = <<>>
    /\ handlers = <<>>
    /\ latest = [core |-> 0, espace |-> 0]
    /\ terminal = <<>>
    /\ ipc = "idle"
    /\ words = <<>>
    /\ typed = NoTyped

Init ==
    /\ MonitorInit
    /\ ImportInit
    /\ file = None
    /\ keystore = <<>>
    /\ activeIndex = Some(0)
    /\ mnemonic = None
    /\ phase = "constructed"
    /\ call = NoCall
    /\ dec = DecIdle
    /\ last = Result(NoCall, "", None)

\* ------------------------------------------------------------------------
\* Returning from a call
\* ------------------------------------------------------------------------

\* the call c returns ret or throws error, leaving the cache and the phase
Return(c, error, ret, cache, ph) ==
    /\ call' = NoCall
    /\ last' = Result(c, error, ret)
    /\ mnemonic' = cache
    /\ phase' = ph

\* the awaited getActiveMnemonic() of c has produced `value`
Resolved(c, value, ks, ai) ==
    IF c.op \in {"getActiveMnemonic", "decryptMnemonic"}
    THEN Return(c, "", Some(value), mnemonic, phase)
    ELSE IF c.op = "initializeKeystore"
    THEN Return(c, "", None, Some(value), "ready")
    ELSE Return(c, getActiveMnemonicLabel(ks, ai), None, Some(value), phase)

\* the awaited getActiveMnemonic() of c has thrown `error`
Rejected(c, error) ==
    Return(c, error, None, mnemonic,
           IF c.op = "initializeKeystore" THEN "failed" ELSE phase)

\* await decryptMnemonic(blob) on behalf of c: throw at once when atob
\* fails, otherwise enter the loop and wait at the first password prompt
Decrypt(c, blob) ==
    LET d == DecryptStart(blob)
    IN  IF d.ok
        THEN /\ dec' = [pc |-> "prompt", blob |-> blob, salt |-> d.salt,
                        iv |-> d.iv, data |-> d.data, attempt |-> 1,
                        entered |-> <<>>]
             /\ call' = c
             /\ UNCHANGED <<last, mnemonic, phase>>
        ELSE /\ dec' = [DecIdle EXCEPT !.pc = "thrown", !.blob = blob]
             /\ Rejected(c, ErrInvalidCharacter)

\* await getActiveMnemonic() on behalf of c, with the keystore fields ks, ai
Resolve(c, ks, ai) ==
    LET g == getActiveMnemonic(ks, ai, mnemonic)
    IN  IF g.kind = "decrypt" THEN Decrypt(c, g.value)
        ELSE /\ dec' = DecIdle
             /\ IF g.kind = "throw" THEN Rejected(c, g.error)
                                    ELSE Resolved(c, g.value, ks, ai)

\* ------------------------------------------------------------------------
\* Actions
\* ------------------------------------------------------------------------

\* A new process: new Wallet() with a new KeystoreManager; the file stays
NewProcess ==
    /\ UNCHANGED notWallet
    /\ Idle
    /\ keystore' = <<>>
    /\ activeIndex' = Some(0)
    /\ mnemonic' = None
    /\ phase' = "constructed"
    /\ call' = NoCall
    /\ dec' = DecIdle
    /\ last' = Result(NoCall, "", None)
    /\ UNCHANGED file

\* Wallet.initializeKeystore()
InitializeKeystore ==
    /\ UNCHANGED notWallet
    /\ Idle
    /\ phase \in {"constructed", "ready"}
    /\ LET r == initializeKeystore(file, keystore, activeIndex)
       IN  /\ keystore' = r.keystore
           /\ activeIndex' = r.activeIndex
           /\ file' = IF r.written
                      THEN Some(KeystoreFile(keystore', activeIndex'))
                      ELSE file
    /\ Resolve(Call("initializeKeystore", 0, "", None, None),
               keystore', activeIndex')

\* Wallet.addMnemonic(): MnemonicManager.addMnemonic(), then the question
\* whether the new entry becomes the active one
AddMnemonic ==
    /\ UNCHANGED notWallet
    /\ Idle
    /\ phase = "ready"
    /\ Len(keystore) < MaxEntries
    /\ \E in \in AddInputs, setActive \in {"yes", "no"} :
          LET r == addMnemonic(keystore, in.storageChoice, in.phrase, in.label,
                               in.password, in.ivFill, in.saltFill)
              c == Call("addMnemonic", r.newIndex, setActive, Some(in.phrase),
                        IF in.storageChoice = "e" THEN Some(in.password) ELSE None)
          IN  /\ keystore' = r.keystore
              /\ IF setActive = "yes"
                 THEN /\ activeIndex' = Some(r.newIndex)
                      /\ file' = Some(KeystoreFile(keystore', activeIndex'))
                      /\ Resolve(c, keystore', activeIndex')
                 ELSE /\ activeIndex' = activeIndex
                      /\ file' = Some(KeystoreFile(keystore', activeIndex'))
                      /\ dec' = DecIdle
                      /\ Return(c, "", None, mnemonic, phase)

\* MnemonicManager.addMnemonic() called on its own; `opt` keeps what was
\* typed at the label prompt ("" takes the default)
ManagerAddMnemonic ==
    /\ UNCHANGED notWallet
    /\ Idle
    /\ phase = "ready"
    /\ Len(keystore) < MaxEntries
    /\ \E in \in AddInputs :
          LET r == addMnemonic(keystore, in.storageChoice, in.phrase, in.label,
                               in.password, in.ivFill, in.saltFill)
              c == Call("MnemonicManager.addMnemonic", r.newIndex,
                        IF in.label = None THEN "" ELSE in.label[1],
                        Some(in.phrase),
                        IF in.storageChoice = "e" THEN Some(in.password) ELSE None)
          IN  /\ keystore' = r.keystore
              /\ file' = Some(KeystoreFile(keystore', activeIndex))
              /\ Return(c, "", None, mnemonic, phase)
    /\ dec' = DecIdle
    /\ UNCHANGED activeIndex

\* Wallet.selectActiveMnemonic() with the entry chosen at the prompt
SelectActiveMnemonic ==
    /\ UNCHANGED notWallet
    /\ Idle
    /\ phase = "ready"
    /\ \E selectedIndex \in 0..(Len(keystore) - 1) :
          LET currentIndex == getActiveIndex(activeIndex)
              c == Call("selectActiveMnemonic", selectedIndex, "", None, None)
          IN  /\ activeIndex' = Some(selectedIndex)
              /\ file' = Some(KeystoreFile(keystore, activeIndex'))
              /\ IF SelectionChanged(selectedIndex, currentIndex)
                 THEN Resolve(c, keystore, activeIndex')
                 ELSE /\ dec' = DecIdle
                      /\ Return(c, getActiveMnemonicLabel(keystore, activeIndex'),
                                None, mnemonic, phase)
    /\ UNCHANGED keystore

\* Wallet.deleteMnemonic() when there is nothing but the default entry
DeleteNothing ==
    /\ UNCHANGED notWallet
    /\ Idle
    /\ phase = "ready"
    /\ Len(keystore) <= 1
    /\ dec' = DecIdle
    /\ Return(Call("Wallet.deleteMnemonic", 0, "", None, None),
              ErrNoAdditional, None, mnemonic, phase)
    /\ UNCHANGED <<file, keystore, activeIndex>>

\* Wallet.deleteMnemonic() with the entry chosen and the answer to the
\* confirmation
WalletDeleteMnemonic ==
    /\ UNCHANGED notWallet
    /\ Idle
    /\ phase = "ready"
    /\ Len(keystore) > 1
    /\ \E selectedIndex \in 1..(Len(keystore) - 1), confirm \in {"yes", "no"} :
          LET c == Call("Wallet.deleteMnemonic", selectedIndex, confirm, None, None)
              r == deleteMnemonic(keystore, activeIndex, selectedIndex)
          IN  IF confirm = "yes"
              THEN /\ keystore' = r.keystore
                   /\ activeIndex' = r.activeIndex
                   /\ file' = IF r.written
                              THEN Some(KeystoreFile(keystore', activeIndex'))
                              ELSE file
                   /\ Return(c, r.error, None,
                             IF r.error = "" /\ DeletedWasActive(selectedIndex, r.activeIndex)
                             THEN None ELSE mnemonic,
                             phase)
              ELSE /\ UNCHANGED <<file, keystore, activeIndex>>
                   /\ Return(c, "", None, mnemonic, phase)
    /\ dec' = DecIdle

\* MnemonicManager.deleteMnemonic(index) called with any index
ManagerDeleteMnemonic ==
    /\ UNCHANGED notWallet
    /\ Idle
    /\ phase = "ready"
    /\ \E index \in (-1)..Len(keystore) :
          LET c == Call("deleteMnemonic", index, "", None, None)
              r == deleteMnemonic(keystore, activeIndex, index)
          IN  /\ keystore' = r.keystore
              /\ activeIndex' = r.activeIndex
              /\ file' = IF r.written
                         THEN Some(KeystoreFile(keystore', activeIndex'))
                         ELSE file
              /\ Return(c, r.error, None, mnemonic, phase)
    /\ dec' = DecIdle

\* Wallet.getActiveMnemonic() called from outside (wallet show, derivation)
GetActiveMnemonic ==
    /\ UNCHANGED notWallet
    /\ Idle
    /\ phase = "ready"
    /\ Resolve(Call("getActiveMnemonic", 0, "", None, None), keystore, activeIndex)
    /\ UNCHANGED <<file, keystore, activeIndex>>

\* Wallet.getActiveMnemonicLabel() called from outside (the footer of start)
GetActiveMnemonicLabel ==
    /\ UNCHANGED notWallet
    /\ Idle
    /\ phase = "ready"
    /\ dec' = DecIdle
    /\ Return(Call("getActiveMnemonicLabel", 0, "", None, None),
              getActiveMnemonicLabel(keystore, activeIndex), None, mnemonic, phase)
    /\ UNCHANGED <<file, keystore, activeIndex>>

\* KeystoreManager.setActiveIndex(index) on a manager used on its own
SetActiveIndex ==
    /\ UNCHANGED notWallet
    /\ Idle
    /\ phase = "constructed"
    /\ \E index \in ActiveIndexValues :
        /\ activeIndex' = index
        /\ last' = Result(Call("setActiveIndex", 0, "", None, None), "", None)
    /\ UNCHANGED <<file, keystore, mnemonic, phase, call, dec>>

\* KeystoreManager.getActiveIndex() on a manager used on its own
GetActiveIndex ==
    /\ UNCHANGED notWallet
    /\ Idle
    /\ phase = "constructed"
    /\ last' = Result(Call("getActiveIndex", 0, "", None, None), "",
                      Some(getActiveIndex(activeIndex)))
    /\ UNCHANGED <<file, keystore, activeIndex, mnemonic, phase, call, dec>>

\* The EncryptionService used on its own, before there is a keystore
Standalone == Idle /\ phase = "constructed" /\ file = None

\* EncryptionService.encryptMnemonic(mnemonic), any string
EncryptMnemonic ==
    /\ UNCHANGED notWallet
    /\ Standalone
    /\ \E m \in Mnemonics \cup {<<>>}, password \in Passwords,
          ivFill \in RandomFills, saltFill \in RandomFills :
          LET r == encryptMnemonic(m, password, ivFill, saltFill)
          IN  Return(Call("encryptMnemonic", 0, "", Some(m), Some(password)),
                     r.error,
                     IF r.error = "" THEN Some(r.blob) ELSE None,
                     mnemonic, phase)
    /\ dec' = DecIdle
    /\ UNCHANGED <<file, keystore, activeIndex>>

\* EncryptionService.decryptMnemonic(blob) on the blob just produced
DecryptMnemonic ==
    /\ UNCHANGED notWallet
    /\ Standalone
    /\ last.op = "encryptMnemonic"
    /\ last.ret # None
    /\ Decrypt(Call("decryptMnemonic", 0, "", last.m, last.pw), last.ret[1])
    /\ UNCHANGED <<file, keystore, activeIndex>>

\* EncryptionService.decryptMnemonic(blob) on a string that no
\* encryptMnemonic() produced
DecryptMalformed ==
    /\ UNCHANGED notWallet
    /\ Standalone
    /\ \E blob \in MalformedBlobs :
          Decrypt(Call("decryptMnemonic", 0, "", None, None), blob)
    /\ UNCHANGED <<file, keystore, activeIndex>>

\* One pass of the loop of decryptMnemonic: the password prompt returns (or
\* fails), the key is derived and the data opened; a success returns to the
\* caller, the third failure throws
PasswordPrompt ==
    /\ UNCHANGED notWallet
    /\ dec.pc = "prompt"
    /\ \E entered \in {None} \cup {Some(p) : p \in Passwords} :
          LET r == DecryptAttempt(dec.salt, dec.iv, dec.data, entered)
              log == Append(dec.entered, entered)
          IN  IF r.ok
              THEN /\ dec' = [dec EXCEPT !.pc = "returned", !.entered = log]
                   /\ Resolved(call, r.value, keystore, activeIndex)
              ELSE IF LoopContinues(dec.attempt)
              THEN /\ dec' = [dec EXCEPT !.attempt = @ + 1, !.entered = log]
                   /\ UNCHANGED <<call, last, mnemonic, phase>>
              ELSE /\ dec' = [dec EXCEPT !.pc = "thrown", !.entered = log]
                   /\ Rejected(call, ErrMaxAttempts)
    /\ UNCHANGED <<file, keystore, activeIndex>>

\* ------------------------------------------------------------------------
\* The start command (cli.ts)
\* ------------------------------------------------------------------------

\* this.txScan.unwatch?.()
CallUnwatch ==
    LET u == Unwatch(subs, unwatch, spinning)
    IN  /\ subs' = u.subs
        /\ spinning' = u.spinning
        /\ teardown' = [calls |-> teardown.calls + 1,
                        error |-> IF u.error # "" THEN u.error ELSE teardown.error]
        /\ UNCHANGED unwatch

\* the finally of the start action: unwatch?.() and stopServer()
Finally ==
    /\ CallUnwatch
    /\ pc' = "stopped"
    /\ keys' = <<>>

\* this.txScan.watchTransactions() at the end of a sub-dialog, and back to
\* the keys of waitForExit; a throw goes through waitForExit to the finally
CallWatch ==
    LET w == watchTransactions(subs, unwatch, clients)
    IN  IF w.error = ""
        THEN /\ subs' = w.subs
             /\ unwatch' = w.unwatch
             /\ teardown' = [calls |-> 0, error |-> ""]
             /\ pc' = "keys"
             /\ UNCHANGED <<keys, spinning>>
        ELSE Finally

\* the start action up to waitForExit(): startServer() and the first
\* watchTransactions(), or a throw on the way and the finally
StartServer ==
    /\ pc = "init"
    /\ \E started \in BOOLEAN :
          IF started
          THEN LET w == watchTransactions(subs, unwatch, TRUE)
               IN  /\ minerWallet' = TRUE
                   /\ clients' = TRUE
                   /\ subs' = w.subs
                   /\ unwatch' = w.unwatch
                   /\ pc' = "reading"
                   /\ UNCHANGED <<keys, spinning, teardown>>
          ELSE /\ Finally
               /\ UNCHANGED <<minerWallet, clients>>
    /\ exit' = TRUE
    /\ UNCHANGED <<dialog, sent, feed, notMonitor>>

\* chunks of keys one read of stdin returns: q, ctrl-c, f, b, another key,
\* and two keys at once
KeyChunks ==
    { <<"q">>, <<"c">>, <<"f">>, <<"b">>, <<"x">>, <<"f", "q">>, <<"q", "b">> }

\* the number of sub-dialogs a chunk opens
RECURSIVE Dialogs(_)
Dialogs(chunk) ==
    IF chunk = <<>> THEN 0
    ELSE (IF Head(chunk) \in {"f", "b"} THEN 1 ELSE 0) + Dialogs(Tail(chunk))

\* waitForExit: Deno.stdin.read() returns a chunk of keys, or null
ReadKeys ==
    /\ pc = "reading"
    /\ \/ \E chunk \in KeyChunks :
             /\ Len(subs) + Dialogs(chunk) <= MaxWatches
             /\ keys' = chunk
             /\ pc' = "keys"
             /\ UNCHANGED <<subs, unwatch, spinning, teardown>>
       \/ Finally
    /\ dialog' = NoDialog
    /\ sent' = <<>>
    /\ UNCHANGED <<exit, clients, minerWallet, feed, notMonitor>>

\* waitForExit: the body of `for (const key of keys)` for the next key
HandleKey ==
    /\ pc = "keys"
    /\ keys # <<>>
    /\ keys' = Tail(keys)
    /\ exit' = IF Head(keys) \in {"q", "c"} THEN FALSE ELSE exit
    /\ IF Head(keys) \in {"f", "b"}
       THEN /\ CallUnwatch
            /\ pc' = IF Head(keys) = "f" THEN "faucetAddress" ELSE "balanceAddress"
            /\ dialog' = Dialog(IF Head(keys) = "f" THEN "faucet" ELSE "balance",
                                "open", None, None, "")
       ELSE /\ dialog' = NoDialog
            /\ UNCHANGED <<pc, subs, unwatch, spinning, teardown>>
    /\ sent' = <<>>
    /\ UNCHANGED <<clients, minerWallet, feed, notMonitor>>

\* waitForExit: the chunk is done; read again, or leave the loop
LoopEnd ==
    /\ pc = "keys"
    /\ keys = <<>>
    /\ IF exit
       THEN /\ pc' = "reading"
            /\ UNCHANGED <<keys, subs, unwatch, spinning, teardown, dialog, sent>>
       ELSE /\ Finally
            /\ dialog' = NoDialog
            /\ sent' = <<>>
    /\ UNCHANGED <<exit, clients, minerWallet, feed, notMonitor>>

\* answers the prompts of handleFaucet accept: a Core or eSpace address,
\* and a string Number() makes a number of (nothing typed is the default 100)
ValidAddresses == {a \in Addresses : isCoreAddress(a) \/ isEspaceAddress(a)}

ValidAmounts == {v \in Amounts : v.numeric /\ v.text # ""}

\* handleFaucet: the prompt for the destination returns, or throws; nothing
\* in handleFaucet or waitForExit catches the throw
FaucetAddress ==
    /\ pc = "faucetAddress"
    /\ \/ \E address \in ValidAddresses :
             /\ dialog' = [dialog EXCEPT !.address = Some(address)]
             /\ pc' = "faucetAmount"
             /\ UNCHANGED <<keys, subs, unwatch, spinning, teardown>>
       \/ /\ dialog' = [dialog EXCEPT !.state = "failed", !.error = "prompt"]
          /\ Finally
    /\ UNCHANGED <<exit, clients, minerWallet, sent, feed, notMonitor>>

\* handleFaucet: the prompt for the amount returns, or throws; with an
\* amount, the try block runs up to the first answer awaited from the node
FaucetAmount ==
    /\ pc = "faucetAmount"
    /\ \/ \E amount \in ValidAmounts :
             LET r == IF minerWallet /\ dialog.address[1] # "" /\ amount.text # ""
                      THEN faucet(dialog.address[1], amount)
                      ELSE Sending("", <<>>, "")
             IN  /\ sent' = r.calls
                 /\ IF r.error = "" /\ r.calls # <<>>
                    THEN /\ dialog' = [dialog EXCEPT !.amount = Some(amount),
                                                     !.error = r.onReject]
                         /\ pc' = "faucetSend"
                         /\ UNCHANGED <<keys, subs, unwatch, spinning, teardown>>
                    ELSE /\ dialog' = [dialog EXCEPT
                                          !.amount = Some(amount),
                                          !.state = IF r.error = "" THEN "done" ELSE "failed",
                                          !.error = r.error]
                         /\ CallWatch
       \/ /\ dialog' = [dialog EXCEPT !.state = "failed", !.error = "prompt"]
          /\ Finally
          /\ UNCHANGED sent
    /\ UNCHANGED <<exit, clients, minerWallet, feed, notMonitor>>

\* handleFaucet: the node accepts or rejects the transaction; the catch
\* prints a rejection, and watchTransactions() is called either way
FaucetSettled ==
    /\ pc = "faucetSend"
    /\ \E accepted \in BOOLEAN :
          dialog' = [dialog EXCEPT !.state = IF accepted THEN "done" ELSE "failed",
                                   !.error = IF accepted THEN "" ELSE @]
    /\ CallWatch
    /\ UNCHANGED <<exit, clients, minerWallet, sent, feed, notMonitor>>

\* handleBalance: the prompt for the address returns and getBalance() is
\* awaited, or the prompt throws into the catch of handleBalance
BalanceAddress ==
    /\ pc = "balanceAddress"
    /\ \/ \E address \in ValidAddresses :
             /\ dialog' = [dialog EXCEPT !.address = Some(address)]
             /\ pc' = "balanceFetch"
             /\ UNCHANGED <<keys, subs, unwatch, spinning, teardown>>
       \/ /\ dialog' = [dialog EXCEPT !.state = "failed", !.error = "prompt"]
          /\ CallWatch
    /\ UNCHANGED <<exit, clients, minerWallet, sent, feed, notMonitor>>

ErrGetBalance == "Failed to get balance"

\* handleBalance: getBalance() resolves or rejects
BalanceSettled ==
    /\ pc = "balanceFetch"
    /\ \E fetched \in BOOLEAN :
          dialog' = [dialog EXCEPT !.state = IF fetched THEN "done" ELSE "failed",
                                   !.error = IF fetched THEN "" ELSE ErrGetBalance]
    /\ CallWatch
    /\ UNCHANGED <<exit, clients, minerWallet, sent, feed, notMonitor>>

\* a callback of a subscription has ended with h: the subscription after it
AfterCallback(sub, h) ==
    [status |-> IF h.thrown THEN "dead" ELSE sub.status,
     failed |-> sub.failed \/ h.errors # {} \/ h.thrown]

\* the Core feed delivers an epoch to a subscription that is active
CoreEpoch ==
    /\ pc = "reading"
    /\ \E k \in 1..Len(subs), event \in CoreEvents :
          LET h == onEpochNumber(event)
          IN  /\ subs[k].core.status = "active"
              /\ feed' = [space |-> "core", event |-> event, handled |-> h]
              /\ subs' = [subs EXCEPT ![k].core = AfterCallback(@, h)]
              /\ spinning' = (spinning \/ h.blocks # {})
    /\ UNCHANGED <<pc, keys, exit, clients, minerWallet, unwatch, dialog, sent,
                   teardown, notMonitor>>

\* the eSpace feed delivers a block to a subscription that is active
EspaceBlock ==
    /\ pc = "reading"
    /\ \E k \in 1..Len(subs), event \in EspaceEvents :
          LET h == onBlock(event)
          IN  /\ subs[k].espace.status = "active"
              /\ feed' = [space |-> "espace", event |-> event, handled |-> h]
              /\ subs' = [subs EXCEPT ![k].espace = AfterCallback(@, h)]
              /\ spinning' = (spinning \/ h.blocks # {})
    /\ UNCHANGED <<pc, keys, exit, clients, minerWallet, unwatch, dialog, sent,
                   teardown, notMonitor>>

\* ------------------------------------------------------------------------
\* MnemonicManager.addMnemonic() with 'Insert an existing mnemonic', on a
\* manager whose keystore is empty
\* ------------------------------------------------------------------------

\* the storage option and 'i' are chosen: importMnemonic() begins
PromptForMnemonic ==
    /\ ipc = "idle"
    /\ Idle
    /\ keystore = <<>>
    /\ ipc' = "word"
    /\ words' = <<>>
    /\ typed' = NoTyped
    /\ UNCHANGED <<notImport, keystore, file, last>>

\* Input.prompt for word Len(words) + 1: the prompt comes back only with
\* an answer validate lets through, an answer it refuses is asked again
EnterWord ==
    /\ ipc = "word"
    /\ \E input \in WordInputs :
          /\ typed' = [pos |-> Len(words) + 1, input |-> input, before |-> words,
                       retried |-> typed.retried \/ ~validate(input)]
          /\ words' = IF validate(input) THEN Append(words, input) ELSE words
          /\ ipc' = IF Len(words') + 1 <= WordCount THEN "word" ELSE "label"
    /\ UNCHANGED <<notImport, keystore, file, last>>

\* the label prompt, the push of the joined words and writeKeystore()
StoreImported ==
    /\ ipc = "label"
    /\ \E storageChoice \in {"p", "e"} :
          LET r == addMnemonic(keystore, storageChoice, Join(words), None,
                               <<112>>, 0, 9)
              c == Call("MnemonicManager.addMnemonic", r.newIndex, "",
                        Some(Join(words)),
                        IF storageChoice = "e" THEN Some(<<112>>) ELSE None)
          IN  /\ keystore' = r.keystore
              /\ file' = Some(KeystoreFile(keystore', activeIndex))
              /\ last' = Result(c, "", None)
    /\ ipc' = "stored"
    /\ UNCHANGED <<notImport, words, typed>>

ImportNext ==
    \/ PromptForMnemonic
    \/ EnterWord
    \/ StoreImported

ImportSpec == Init /\ [][ImportNext]_vars

\* ------------------------------------------------------------------------
\* The callbacks of the two feeds, step by step, beside the key loop
\* ------------------------------------------------------------------------

\* blocks the feeds deliver in one run of the model
MaxBlocks == 2

\* a sub-dialog is open: handleFaucet or handleBalance has called unwatch
\* and has not yet called watchTransactions()
DialogOpen ==
    pc \in {"faucetAddress", "faucetAmount", "faucetSend", "balanceAddress",
            "balanceFetch"}

\* the start command is at an await (the read of stdin, a prompt, an answer
\* of the node), so that callbacks of the feeds can run
Awaiting == pc = "reading" \/ DialogOpen

\* the callback for one block: "fetch" while getBlock (for Core, after
\* getBlocksByEpoch) is awaited, "txs" while getTransaction is awaited
Handler(space, hpc) == [space |-> space, pc |-> hpc]

\* one write of a callback: the block it belongs to, the block number that
\* was printed, and whether a sub-dialog was open
Write(kind, space, block, shown, inDialog) ==
    [kind |-> kind, space |-> space, block |-> block, shown |-> shown,
     inDialog |-> inDialog]

\* a feed whose subscription is active calls onEpochNumber or onBlock for a
\* new block; the promise the callback returns is not awaited by the feed
BlockArrives ==
    /\ Awaiting
    /\ Len(handlers) < MaxBlocks
    /\ \E space \in {"core", "espace"}, k \in 1..Len(subs) :
          /\ subs[k][space].status = "active"
          /\ handlers' = Append(handlers, Handler(space, "fetch"))
    /\ UNCHANGED <<latest, terminal, spinning, notHandler>>

\* getBlock() resolves: onNewBlock(block) runs updateCoreBlock or
\* updateEspaceBlock (the block record, csUpdate and cs.start), then the
\* transactions are asked for; or it rejects and the catch ends the callback
BlockFetched ==
    /\ Awaiting
    /\ \E i \in DOMAIN handlers :
          /\ handlers[i].pc = "fetch"
          /\ \/ /\ \E hasTransaction \in BOOLEAN :
                      handlers' = [handlers EXCEPT
                                      ![i].pc = IF hasTransaction THEN "txs" ELSE "done"]
                /\ latest' = [latest EXCEPT ![handlers[i].space] = i]
                /\ spinning' = TRUE
                /\ terminal' = Append(terminal,
                                      Write("block", handlers[i].space, i, i, DialogOpen))
             \/ /\ handlers' = [handlers EXCEPT ![i].pc = "done"]
                /\ UNCHANGED <<latest, spinning, terminal>>
    /\ UNCHANGED notHandler

\* getTransaction() resolves: onNewTransaction(tx) runs handleCoreTransaction
\* or handleEspaceTransaction, which logs with the block record as it is now
TransactionFetched ==
    /\ Awaiting
    /\ \E i \in DOMAIN handlers :
          /\ handlers[i].pc = "txs"
          /\ handlers' = [handlers EXCEPT ![i].pc = "done"]
          /\ terminal' = Append(terminal,
                                Write("tx", handlers[i].space, i,
                                      latest[handlers[i].space], DialogOpen))
    /\ UNCHANGED <<latest, spinning, notHandler>>

\* the start command with its balance dialog and the feeds
HandlerNext ==
    \/ StartServer
    \/ ReadKeys
    \/ HandleKey
    \/ LoopEnd
    \/ BalanceAddress
    \/ BalanceSettled
    \/ FaucetAddress
    \/ FaucetAmount
    \/ FaucetSettled
    \/ BlockArrives
    \/ BlockFetched
    \/ TransactionFetched

HandlerSpec == Init /\ [][HandlerNext]_vars

\* ------------------------------------------------------------------------
\* Key derivations started together, as initializeChain() does with
\* Promise.all over corePrivateKey(i) and espacePrivateKey(i)
\* ------------------------------------------------------------------------

\* one derivePrivateKey(): "prompt" while its decryptMnemonic waits for a
\* password, "done" with the phrase, or "failed"
Derivation(dpc, attempt, value, error) ==
    [pc |-> dpc, attempt |-> attempt, value |-> value, error |-> error]

\* derivePrivateKey() up to its first await, on the fields as they are
derivePrivateKey(ks, ai, cache) ==
    LET g == getActiveMnemonic(ks, ai, cache)
    IN  IF g.kind = "throw" THEN Derivation("failed", 0, <<>>, g.error)
        ELSE IF g.kind = "return" THEN Derivation("done", 0, g.value, "")
        ELSE IF DecryptStart(g.value).ok THEN Derivation("prompt", 1, <<>>, "")
        ELSE Derivation("failed", 0, <<>>, ErrInvalidCharacter)

\* Array.from({ length: n }, (_, i) => this.wallet.corePrivateKey(i)): every
\* call runs to its first await before any of them goes on
StartDerivations ==
    /\ Idle
    /\ phase = "ready"
    /\ derivations = <<>>
    /\ \E n \in 1..MaxDerivations :
          /\ derivations' =
                 [i \in 1..n |-> derivePrivateKey(keystore, activeIndex, mnemonic)]
          /\ call' = Call("derivePrivateKey", n, "", None, None)
    /\ UNCHANGED <<notDerivation, last>>

\* the password prompt of one of the decryptMnemonic calls is answered
DerivationPrompt ==
    /\ call.op = "derivePrivateKey"
    /\ \E i \in DOMAIN derivations, entered \in {None} \cup {Some(p) : p \in Passwords} :
          /\ derivations[i].pc = "prompt"
          /\ LET d == DecryptStart(At(keystore, getActiveIndex(activeIndex)).mnemonic)
                 r == DecryptAttempt(d.salt, d.iv, d.data, entered)
             IN  derivations' =
                     [derivations EXCEPT ![i] =
                         IF r.ok THEN Derivation("done", @.attempt, r.value, "")
                         ELSE IF LoopContinues(@.attempt)
                         THEN Derivation("prompt", @.attempt + 1, <<>>, "")
                         ELSE Derivation("failed", @.attempt, <<>>, ErrMaxAttempts)]
    /\ UNCHANGED <<notDerivation, call, last>>

\* Promise.all settles: every derivation has returned or one has thrown
SettleDerivations ==
    /\ call.op = "derivePrivateKey"
    /\ \A i \in DOMAIN derivations : derivations[i].pc # "prompt"
    /\ derivations' = <<>>
    /\ last' = Result(call,
                      IF \E i \in DOMAIN derivations : derivations[i].pc = "failed"
                      THEN (CHOOSE e \in {derivations[i].error : i \in DOMAIN derivations} :
                                e # "")
                      ELSE "",
                      None)
    /\ call' = NoCall
    /\ UNCHANGED notDerivation

\* a process that sets up its keystore and derives keys
DerivationNext ==
    \/ InitializeKeystore
    \/ AddMnemonic
    \/ WalletDeleteMnemonic
    \/ PasswordPrompt
    \/ StartDerivations
    \/ DerivationPrompt
    \/ SettleDerivations

DerivationSpec == Init /\ [][DerivationNext]_vars

MonitorNext ==
    \/ StartServer
    \/ ReadKeys
    \/ HandleKey
    \/ LoopEnd
    \/ FaucetAddress
    \/ FaucetAmount
    \/ FaucetSettled
    \/ BalanceAddress
    \/ BalanceSettled
    \/ CoreEpoch
    \/ EspaceBlock

MonitorSpec == Init /\ [][MonitorNext]_vars

Next ==
    \/ NewProcess
    \/ InitializeKeystore
    \/ AddMnemonic
    \/ ManagerAddMnemonic
    \/ SelectActiveMnemonic
    \/ DeleteNothing
    \/ WalletDeleteMnemonic
    \/ ManagerDeleteMnemonic
    \/ GetActiveMnemonic
    \/ GetActiveMnemonicLabel
    \/ EncryptMnemonic
    \/ DecryptMnemonic
    \/ DecryptMalformed
    \/ PasswordPrompt

Spec == Init /\ [][Next]_vars

\* keystore files that were not written by this run of the tool: entries
\* with any "activeIndex" the format allows (a number or null)
KeystoreFiles ==
    { KeystoreFile(ks, ai) :
        ks \in { <<DefaultEntry>>,
                 <<DefaultEntry, Entry("plaintext", "Mnemonic 2", <<97>>)>>,
                 <<Entry("plaintext", "My Mnemonic", <<98, 32, 233>>),
                   Entry("plaintext", "Mnemonic 2", <<97>>),
                   Entry("plaintext", "Savings", <<98>>)>> },
        ai \in {None, Some(-1), Some(0), Some(1), Some(2)} }

\* a process that finds one of these files
FileInit ==
    /\ MonitorInit
    /\ ImportInit
    /\ file \in {Some(f) : f \in KeystoreFiles}
    /\ keystore = <<>>
    /\ activeIndex = Some(0)
    /\ mnemonic = None
    /\ phase = "constructed"
    /\ call = NoCall
    /\ dec = DecIdle
    /\ last = Result(NoCall, "", None)

\* the commands that read the keystore: wallet show, wallet select, start
FileNext ==
    \/ NewProcess
    \/ InitializeKeystore
    \/ SelectActiveMnemonic
    \/ GetActiveMnemonic
    \/ GetActiveMnemonicLabel
    \/ SetActiveIndex
    \/ GetActiveIndex

FileSpec == FileInit /\ [][FileNext]_vars

TypeOK ==
    /\ phase \in {"constructed", "ready", "failed"}
    /\ dec.pc \in {"idle", "prompt", "returned", "thrown"}
    /\ Len(activeIndex) <= 1
    /\ Len(mnemonic) <= 1

\* ------------------------------------------------------------------------
\* Properties
\* ------------------------------------------------------------------------

\* the call `op` is the last one that ended and nothing is in flight
Returned(op) == call.op = "" /\ last.op = op

\* the keystore fields and the file are as they were when the last call began
Untouched ==
    /\ keystore = last.pre.keystore
    /\ activeIndex = last.pre.activeIndex
    /\ file = last.pre.file

\* the phrase an entry stands for: its text, or what its blob decrypts to
\* under the password that opens it
PhraseOf(e) ==
    IF e.type = "plaintext" THEN e.mnemonic
    ELSE LET d  == DecryptStart(e.mnemonic)
             pw == CHOOSE p \in Passwords :
                       DecryptAttempt(d.salt, d.iv, d.data, Some(p)).ok
         IN  DecryptAttempt(d.salt, d.iv, d.data, Some(pw)).value

\* a MnemonicManager.deleteMnemonic(index) that went through: called
\* directly, or by Wallet.deleteMnemonic() after the confirmation
Deleted ==
    \/ Returned("deleteMnemonic")
    \/ Returned("Wallet.deleteMnemonic") /\ last.opt = "yes"

\* C1: deleteMnemonic(0) on a keystore with at least one entry throws
\* 'Cannot delete the default mnemonic' whatever the active index is, and
\* leaves the entries, the active index and the file as they were.
C1_DeleteDefaultFails ==
    /\ (Returned("deleteMnemonic") /\ last.arg = 0 /\ Len(last.pre.keystore) >= 1)
           => (last.error = ErrCannotDeleteDefault /\ Untouched)
    /\ keystore # <<>>
           => \A ai \in ActiveIndexValues :
                 deleteMnemonic(keystore, ai, 0)
                   = [error |-> ErrCannotDeleteDefault, keystore |-> keystore,
                      activeIndex |-> ai, written |-> FALSE]

\* deleteMnemonic(0) was refused with three entries and the third one active
C1_Witness ==
    /\ Returned("deleteMnemonic")
    /\ last.arg = 0
    /\ last.error = ErrCannotDeleteDefault
    /\ Len(keystore) = 3
    /\ activeIndex = Some(2)

\* C2: deleteMnemonic(index) with 1 <= index < entries.length removes the
\* entry at that position and no other, keeps the order of the rest, and
\* sets the active index to 0 if it was index, to one less if it was greater
\* than index, and leaves it if it was less than index.
C2_DeleteRenormalizes ==
    LET \* new is old without the entry at index, the others in order
        RemovedAt(old, new, index) ==
            /\ Len(new) = Len(old) - 1
            /\ \A i \in 0..(Len(new) - 1) :
                  At(new, i) = At(old, IF i < index THEN i ELSE i + 1)
        \* newAi is oldAi renormalized; an unset index counts as 0
        Renormalized(oldAi, newAi, index) ==
            LET a == IF oldAi = None THEN 0 ELSE oldAi[1]
            IN  /\ a = index => newAi = Some(0)
                /\ a > index => newAi = Some(a - 1)
                /\ a < index => newAi = oldAi
    IN  /\ (Deleted /\ 1 <= last.arg /\ last.arg < Len(last.pre.keystore))
               => /\ last.error = ""
                  /\ RemovedAt(last.pre.keystore, keystore, last.arg)
                  /\ Renormalized(last.pre.activeIndex, activeIndex, last.arg)
        /\ \A ai \in ActiveIndexValues, index \in 1..(Len(keystore) - 1) :
               LET r == deleteMnemonic(keystore, ai, index)
               IN  /\ r.error = ""
                   /\ RemovedAt(keystore, r.keystore, index)
                   /\ Renormalized(ai, r.activeIndex, index)

\* entries [A, B, C] with the third active, deleteMnemonic(1): two entries
\* are left and the second is active
C2_Witness ==
    /\ Deleted
    /\ last.error = ""
    /\ Len(last.pre.keystore) = 3
    /\ last.pre.activeIndex = Some(2)
    /\ last.arg = 1
    /\ activeIndex = Some(1)

\* C3: whenever the keystore is not empty the active index is set and
\* 0 <= activeIndex < entries.length, in every state the wallet operations
\* reach.
C3_ActiveIndexInRange ==
    keystore # <<>>
        => (activeIndex # None /\ 0 <= activeIndex[1] /\ activeIndex[1] < Len(keystore))

\* the active entry was the last of three and has just been deleted
C3_Witness ==
    /\ Deleted
    /\ last.error = ""
    /\ Len(last.pre.keystore) = 3
    /\ last.pre.activeIndex = Some(2)
    /\ last.arg = 2
    /\ Len(keystore) = 2

\* C4: deleteMnemonic(index) with index < 0 or index >= entries.length
\* throws 'Invalid mnemonic index' and leaves the entries, the active index
\* and the file as they were.
C4_DeleteOutOfRangeFails ==
    /\ (Returned("deleteMnemonic")
           /\ (last.arg < 0 \/ last.arg >= Len(last.pre.keystore)))
           => (last.error = ErrInvalidIndex /\ Untouched)
    /\ \A ai \in ActiveIndexValues,
           index \in {-2, -1, Len(keystore), Len(keystore) + 1} :
           deleteMnemonic(keystore, ai, index)
             = [error |-> ErrInvalidIndex, keystore |-> keystore,
                activeIndex |-> ai, written |-> FALSE]

\* deleteMnemonic(entries.length) was refused on a keystore of two entries
C4_Witness ==
    /\ Returned("deleteMnemonic")
    /\ last.arg = Len(last.pre.keystore)
    /\ last.error = ErrInvalidIndex
    /\ Len(keystore) = 2

\* C5: once initializeKeystore() has returned, the keystore in memory is
\* never empty and its first entry is the default entry; the same holds of
\* the file from the moment it is first written.
C5_DefaultEntryStays ==
    /\ phase = "ready" => (keystore # <<>> /\ At(keystore, 0) = DefaultEntry)
    /\ file # None => (file[1].keystore # <<>> /\ At(file[1].keystore, 0) = DefaultEntry)

\* every entry but the default one has been deleted again
C5_Witness ==
    /\ Deleted
    /\ last.error = ""
    /\ last.arg = 1
    /\ keystore = <<DefaultEntry>>
    /\ file = Some(KeystoreFile(keystore, activeIndex))

\* C6: after selectActiveMnemonic() the chosen position is the active index,
\* the file holds it, and when the choice differs from the former active
\* index the cache holds the phrase of the chosen entry, so that
\* getActiveMnemonic() returns it.
C6_SelectSwitchesMnemonic ==
    (Returned("selectActiveMnemonic") /\ last.error = "")
        => /\ activeIndex = Some(last.arg)
           /\ file = Some(KeystoreFile(keystore, activeIndex))
           /\ last.arg # getActiveIndex(last.pre.activeIndex)
                 => getActiveMnemonic(keystore, activeIndex, mnemonic)
                      = [kind |-> "return", error |-> "",
                         value |-> PhraseOf(At(keystore, last.arg))]

\* C7: after Wallet.deleteMnemonic() has deleted the entry that was active,
\* the cache no longer holds the phrase of the deleted entry (it is cleared),
\* so getActiveMnemonic() does not return it.
C7_DeletedActiveNotCached ==
    (Returned("Wallet.deleteMnemonic") /\ last.opt = "yes" /\ last.error = ""
        /\ getActiveIndex(last.pre.activeIndex) = last.arg)
        => mnemonic # Some(PhraseOf(At(last.pre.keystore, last.arg)))

\* C8: decryptMnemonic prompts at most 3 times; it prompts again only after
\* failed attempts, returns at the first attempt that succeeds, and throws
\* 'Maximum decryption attempts reached.' after the third failed attempt.
C8_AtMostThreeAttempts ==
    LET n == Len(dec.entered)
        Failed(i) == ~DecryptAttempt(dec.salt, dec.iv, dec.data, dec.entered[i]).ok
    IN  /\ n <= 3
        /\ dec.pc = "prompt"
              => (n < 3 /\ dec.attempt = n + 1 /\ \A i \in 1..n : Failed(i))
        /\ dec.pc = "returned"
              => (n >= 1 /\ ~Failed(n) /\ (\A i \in 1..(n - 1) : Failed(i))
                  /\ call.op = "" /\ last.error = "")
        /\ (dec.pc = "thrown" /\ n > 0)
              => (n = 3 /\ (\A i \in 1..n : Failed(i))
                  /\ call.op = "" /\ last.error = ErrMaxAttempts)

\* three passwords were entered, all failed, and decryptMnemonic threw
C8_Witness ==
    /\ dec.pc = "thrown"
    /\ Len(dec.entered) = 3
    /\ last.error = ErrMaxAttempts

\* C9: decryptMnemonic(encryptMnemonic(M) under password P) returns M when
\* P is among the passwords entered, and throws, returning nothing, for any
\* other passwords entered.
C9_RoundTrip ==
    (Returned("decryptMnemonic") /\ last.pw # None)
        => LET entersP == \E i \in 1..Len(dec.entered) : dec.entered[i] = last.pw
           IN  /\ entersP => (last.error = "" /\ last.ret = last.m)
               /\ ~entersP => (last.error # "" /\ last.ret = None)

\* the phrase "b é" came back at the second attempt, after a wrong password
C9_Witness ==
    /\ Returned("decryptMnemonic")
    /\ last.m = Some(<<98, 32, 233>>)
    /\ Len(dec.entered) = 2
    /\ dec.entered[1] # last.pw
    /\ last.ret = last.m

\* C10: encryptMnemonic('') throws 'Mnemonic cannot be empty' and returns no
\* blob.
C10_EmptyMnemonicRejected ==
    (Returned("encryptMnemonic") /\ last.m = Some(<<>>))
        => (last.error = "Mnemonic cannot be empty" /\ last.ret = None)

\* C11: decryptMnemonic(blob) throws before the first password prompt
\* whenever blob is not base64 or decodes to fewer than 28 bytes (16 of salt
\* and 12 of nonce).
C11_MalformedBlobFailsBeforePrompt ==
    LET decoded == atob(dec.blob)
    IN  (/\ dec.pc \in {"prompt", "returned", "thrown"}
         /\ ~decoded.ok \/ Len(decoded.bytes) < SaltLength + IvLength)
            => (dec.pc = "thrown" /\ dec.entered = <<>> /\ last.error # "")

\* the subscriptions `unwatch` would close are open on both feeds
Subscribed ==
    /\ unwatch # None
    /\ subs[unwatch[1]].core.status = "active"
    /\ subs[unwatch[1]].espace.status = "active"

\* a faucet or balance sub-dialog has ended and no key was handled since
DialogEnded == dialog.state \in {"done", "failed"}

\* C12: when a faucet or balance sub-dialog ends, in success or in any
\* failure (a prompt that throws, a call the node rejects, no funding
\* wallet), the two subscriptions it closed on entry are open again and
\* waitForExit goes on handling and reading keys.
C12_DialogResubscribes ==
    DialogEnded => (Subscribed /\ pc \in {"keys", "reading"})

\* C13: a faucet sub-dialog in which the operator has answered both prompts
\* calls wallet.sendTransaction exactly once: not zero times, not twice.
C13_OneTransactionPerFaucet ==
    (dialog.kind = "faucet" /\ dialog.amount # None)
        => Len(sent) = 1

\* C14: faucet() to an eSpace (hex) destination calls transferEVM on the
\* CrossSpaceCall contract and makes no native transfer; to a Core
\* destination it makes a native transfer to that address; to a destination
\* in neither format it throws and sends nothing.  With an amount that is a
\* decimal number each of the two routes makes exactly one call.
C14_FaucetRoutesByFormat ==
    /\ \A v \in Amounts :
          LET e == faucet(EspaceAddress, v)
              c == faucet(CoreAddress, v)
              n == faucet(NoAddress, v)
          IN  /\ \A i \in 1..Len(e.calls) :
                    e.calls[i] = Tx(CrossSpaceCall, v.text, "transferEVM", EspaceAddress)
              /\ \A i \in 1..Len(c.calls) :
                    c.calls[i] = Tx(CoreAddress, v.text, "", "")
              /\ (v.numeric /\ v.decimal /\ v.text # "")
                    => (Len(e.calls) = 1 /\ Len(c.calls) = 1)
              /\ n.error # ""
              /\ n.calls = <<>>
    /\ (dialog.kind = "faucet" /\ sent # <<>>)
          => sent = << IF isEspaceAddress(dialog.address[1])
                       THEN Tx(CrossSpaceCall, dialog.amount[1].text, "transferEVM",
                               dialog.address[1])
                       ELSE Tx(dialog.address[1], dialog.amount[1].text, "", "") >>

\* the faucet dialog has funded an eSpace destination through the contract
C14_Witness ==
    /\ dialog.kind = "faucet"
    /\ dialog.state = "done"
    /\ dialog.address = Some(EspaceAddress)
    /\ Len(sent) = 1
    /\ sent[1].to = CrossSpaceCall
    /\ sent[1].data = "transferEVM"

\* C15: the faucet dialog calls wallet.sendTransaction only for a
\* destination that is a Core or eSpace address and an amount that is a
\* positive number; a zero, negative, empty or non-numeric amount sends
\* nothing.
C15_FaucetValidatesInputs ==
    (dialog.kind = "faucet" /\ sent # <<>>)
        => /\ dialog.address[1] \in ValidAddresses
           /\ dialog.amount[1].text # ""
           /\ dialog.amount[1].numeric
           /\ dialog.amount[1].positive

\* no subscription ever opened is active
NoneActive ==
    \A k \in 1..Len(subs) :
        subs[k].core.status # "active" /\ subs[k].espace.status # "active"

C17_FeedSurvivesFailures ==
    /\ \A k \in 1..Len(subs) :
          /\ subs[k].core.status # "dead"
          /\ subs[k].espace.status # "dead"
          /\ (unwatch = Some(k) /\ teardown.calls = 0)
                => (subs[k].core.status = "active" /\ subs[k].espace.status = "active")
    /\ feed.space # ""
          => LET bs == IF feed.event.blocks = None THEN <<>> ELSE feed.event.blocks[1]
                 h  == feed.handled
             IN  /\ ~h.thrown
                 /\ \A i \in 1..Len(bs) :
                       /\ i \in h.blocks <=> bs[i].fetched
                       /\ Item("block", i, 0) \in h.errors <=> ~bs[i].fetched
                       /\ \A j \in 1..Len(bs[i].txs) :
                             /\ Item("tx", i, j) \in h.txs
                                   <=> (bs[i].fetched /\ bs[i].txs[j] = "ok")
                             /\ Item("tx", i, j) \in h.errors
                                   <=> (bs[i].fetched /\ bs[i].txs[j] # "ok")
                 /\ Item("epoch", 0, 0) \in h.errors <=> feed.event.blocks = None

\* a subscription of the Core feed that has logged an error before delivers
\* the block and the transaction of a later epoch
C17_Witness ==
    /\ feed.space = "core"
    /\ feed.handled.errors = {}
    /\ feed.handled.txs # {}
    /\ \E k \in 1..Len(subs) :
          subs[k].core.status = "active" /\ subs[k].core.failed

\* the calls that change the entries or the active index
Mutators ==
    {"initializeKeystore", "addMnemonic", "MnemonicManager.addMnemonic",
     "selectActiveMnemonic", "deleteMnemonic", "Wallet.deleteMnemonic"}

\* C18: after initializeKeystore, addMnemonic (the new entry made active or
\* not), selectActiveMnemonic or deleteMnemonic has returned without an
\* error, the file holds the entries and the active index that are in
\* memory.
C18_PersistedAfterMutation ==
    (call.op = "" /\ last.op \in Mutators /\ last.error = "")
        => file = Some(KeystoreFile(keystore, activeIndex))

\* a third entry was added and made active, and the file has both changes
C18_Witness ==
    /\ Returned("addMnemonic")
    /\ last.error = ""
    /\ last.opt = "yes"
    /\ Len(keystore) = 3
    /\ activeIndex = Some(2)
    /\ file # last.pre.file
    /\ file = Some(KeystoreFile(keystore, activeIndex))

\* C19: initializeKeystore() without a file leaves exactly one entry, the
\* plaintext 'Default Keystore' with the test mnemonic, active index 0, the
\* same in the file, and getActiveMnemonic() returns the test mnemonic; with
\* a file it takes the entries and the active index of the file and writes
\* nothing.
C19_FreshStart ==
    Returned("initializeKeystore")
        => IF last.pre.file = None
           THEN /\ last.error = ""
                /\ keystore = <<[type |-> "plaintext", label |-> "Default Keystore",
                                 mnemonic |-> Phrase(11, JunkWord)]>>
                /\ activeIndex = Some(0)
                /\ file = Some(KeystoreFile(keystore, activeIndex))
                /\ getActiveMnemonic(keystore, activeIndex, mnemonic)
                     = [kind |-> "return", error |-> "", value |-> Phrase(11, JunkWord)]
           ELSE /\ keystore = last.pre.file[1].keystore
                /\ activeIndex = last.pre.file[1].activeIndex
                /\ file = last.pre.file

\* a new process has loaded a file of three entries with the second active
C19_Witness ==
    /\ Returned("initializeKeystore")
    /\ last.pre.file # None
    /\ last.pre.keystore = <<>>
    /\ Len(keystore) = 3
    /\ activeIndex = Some(1)

\* C20: getActiveMnemonic() (also when initializeKeystore() calls it) and
\* getActiveMnemonicLabel() throw 'No active mnemonic selected.' whenever the
\* active index of the keystore is null or negative.
C20_NoActiveMnemonic ==
    (/\ call.op = ""
     /\ last.op \in {"initializeKeystore", "getActiveMnemonic", "getActiveMnemonicLabel"}
     /\ activeIndex = None \/ activeIndex[1] < 0)
        => last.error = ErrNoActive

\* C21 as stated: getActiveIndex() returns 0 when the stored index is null
\* or negative, and the stored index otherwise.
C21_GetterNormalizes ==
    Returned("getActiveIndex") =>
        last.ret = Some(IF activeIndex = None \/ activeIndex[1] < 0
                        THEN 0 ELSE activeIndex[1])

\* C21 as the code has it: getActiveIndex() returns 0 when the stored index
\* is null and the stored index otherwise, a negative one included.
C21_GetterDefaultsUnset ==
    Returned("getActiveIndex") =>
        last.ret = Some(IF activeIndex = None THEN 0 ELSE activeIndex[1])

\* setActiveIndex(null) was called and the getter has returned 0
C21_Witness ==
    /\ Returned("getActiveIndex")
    /\ activeIndex = None
    /\ last.ret = Some(0)

\* C22: MnemonicManager.addMnemonic() appends exactly one entry holding the
\* phrase at the end of the keystore, returns the index of that entry (the
\* number of entries before), labels it 'Mnemonic N' with N the number of
\* entries before plus one when no label is typed, and leaves the entries
\* there were and the active index as they were.
C22_AddAppendsOne ==
    Returned("MnemonicManager.addMnemonic") =>
        LET n == Len(last.pre.keystore)
        IN  /\ last.error = ""
            /\ Len(keystore) = n + 1
            /\ SubSeq(keystore, 1, n) = last.pre.keystore
            /\ last.arg = n
            /\ PhraseOf(keystore[n + 1]) = last.m[1]
            /\ keystore[n + 1].label =
                   IF last.opt = "" THEN "Mnemonic " \o ToString(n + 1)
                                    ELSE last.opt
            /\ activeIndex = last.pre.activeIndex

\* a third entry added without a label while the second entry is active
C22_Witness ==
    /\ Returned("MnemonicManager.addMnemonic")
    /\ last.opt = ""
    /\ Len(last.pre.keystore) = 2
    /\ last.pre.activeIndex = Some(1)
    /\ keystore[3].label = "Mnemonic 3"
    /\ last.arg = 2

\* the words of a phrase: the pieces between its spaces
RECURSIVE Split(_)
Split(phrase) ==
    IF \A i \in 1..Len(phrase) : phrase[i] # 32 THEN <<phrase>>
    ELSE LET k == CHOOSE i \in 1..Len(phrase) :
                      phrase[i] = 32 /\ \A j \in 1..(i - 1) : phrase[j] # 32
         IN  <<SubSeq(phrase, 1, k - 1)>> \o Split(SubSeq(phrase, k + 1, Len(phrase)))

C24_CacheCoherent ==
    (Idle /\ phase = "ready" /\ ~CacheUnset(mnemonic))
        => /\ getActiveIndex(activeIndex) \in 0..(Len(keystore) - 1)
           /\ mnemonic[1] = PhraseOf(At(keystore, getActiveIndex(activeIndex)))

\* C26: getActiveMnemonic() returns the cached phrase when the cache is set,
\* without a password prompt; when the cache is unset it resolves the active
\* entry and leaves the result in the cache, so that the next call resolves
\* nothing.
C26_ResolutionCached ==
    (Returned("getActiveMnemonic") /\ last.error = "")
        => /\ ~CacheUnset(last.pre.mnemonic)
                  => last.ret = last.pre.mnemonic /\ dec.pc = "idle"
           /\ CacheUnset(last.pre.mnemonic) => mnemonic = last.ret

\* the decryptMnemonic calls that are waiting at a password prompt
Resolving == {i \in DOMAIN derivations : derivations[i].pc = "prompt"}

\* C27: at no time are two resolutions of the active mnemonic in progress,
\* also when several key derivations are started together.
C27_SingleResolution == Cardinality(Resolving) <= 1

\* C25: while a sub-dialog is open no block or transaction callback writes
\* to the terminal or starts the status line again, callbacks that were
\* already in flight at the unsubscribe included.
C25_DialogUndisturbed ==
    /\ \A w \in DOMAIN terminal : ~terminal[w].inDialog
    /\ DialogOpen => ~spinning

\* C28: within one feed the callbacks run in the order of arrival: whatever
\* was written for a block comes before everything written for a block that
\* arrived after it on the same feed.
C28_ArrivalOrder ==
    \A v, w \in DOMAIN terminal :
        (terminal[v].space = terminal[w].space /\ terminal[v].block < terminal[w].block)
            => v < w

\* C29: every transaction is logged with the number of the block it is in.
C29_LoggedWithOwnBlock ==
    \A w \in DOMAIN terminal :
        terminal[w].kind = "tx" => terminal[w].shown = terminal[w].block

\* C30: once waitForExit has handled 'q' or ctrl-c (exit is false), no
\* sub-dialog is opened and no subscription is made again: the keys that
\* follow the quit key in the same chunk are not dispatched.
C30_QuitEndsDispatch ==
    ~exit => ~DialogOpen /\ dialog = NoDialog

====
